---- MODULE Spec2Model ----
(***************************************************************************)
(* State-machine model of run_tedana.py (class TedanaProcessor): echo      *)
(* discovery and grouping, the combination stage (_run_tedana, with the    *)
(* optional trimming and its cleanup), the two projection stages           *)
(* (_apply_transforms) and the orchestrating loop of process().            *)
(*                                                                         *)
(* A filename is a sequence of its '_'-delimited components; a component   *)
(* is [p, v]: p is the text before its first '-', v the rest.  A path is   *)
(* [dir, stem, leaf, n]; the filesystem is the set of existing paths.      *)
(* The external capabilities (nibabel load/save, t2smap_workflow,          *)
(* antsApplyTransforms) are nondeterministic in their outcome.             *)
(***************************************************************************)
EXTENDS Integers, Sequences, FiniteSets, TLC

\* ---------------------------------------------------------------- bounds
MaxFiles == 6
MaxTrim == 1
MaxInvocations == 2

\* ------------------------------------------------------- names and paths
C(p, v) == [p |-> p, v |-> v]

P(dir, stem, leaf, n) == [dir |-> dir, stem |-> stem, leaf |-> leaf, n |-> n]

NoPath == P("", <<>>, "", 0)

Err(type, msg, key, count) == [type |-> type, msg |-> msg, key |-> key, count |-> count]

NoError == Err("", "", <<>>, 0)

EchoName(run, echo) ==
  << C("sub", "01"), C("task", "rest"), C("run", run), C("echo", echo),
     C("desc", "preproc"), C("", "bold") >>

\* One discovered echo file: its name and the EchoTime its sidecar holds
\* (<<t>>, or <<>> when the field is absent or null).
Entry(run, echo, te) == [name |-> EchoName(run, echo), te |-> te]

\* Run 1 has up to four echo files (the fourth repeats an echo time), run 2
\* up to three.
Run1Files ==
  << Entry("1", "1", <<1>>), Entry("1", "2", <<2>>), Entry("1", "3", <<3>>),
     Entry("1", "4", <<2>>) >>

Run2Files == << Entry("2", "1", <<1>>), Entry("2", "2", <<2>>), Entry("2", "3", <<3>>) >>

UniverseSeq == Run1Files \o Run2Files

\* Files whose names carry other components: an acq- component before the
\* run index, a session and no run index, components out of the usual order
\* and a second run- component.
NamedFile(components, te) ==
  [name |-> components \o << C("desc", "preproc"), C("", "bold") >>, te |-> te]

NameUniverse ==
  { NamedFile(<< C("sub", "01"), C("task", "rest"), C("acq", "a"), C("run", "1"),
                 C("echo", "1") >>, <<1>>),
    NamedFile(<< C("sub", "01"), C("task", "rest"), C("acq", "b"), C("run", "1"),
                 C("echo", "2") >>, <<2>>),
    NamedFile(<< C("sub", "01"), C("task", "rest"), C("acq", "b"), C("run", "1"),
                 C("echo", "3") >>, <<3>>),
    NamedFile(<< C("sub", "01"), C("ses", "1"), C("task", "rest"), C("echo", "1") >>, <<1>>),
    NamedFile(<< C("sub", "01"), C("ses", "1"), C("task", "rest"), C("echo", "2") >>, <<2>>),
    NamedFile(<< C("task", "nback"), C("sub", "01"), C("run", "2"), C("run", "9"),
                 C("echo", "1") >>, <<1>>) }

Universe == { UniverseSeq[j] : j \in DOMAIN UniverseSeq }

EchoPath(name) == P("func", name, ".nii.gz", 0)

JsonPath(name) == P("func", name, ".json", 0)

AnatXfm(n) == P("anat", << C("sub", "01") >>, "_from-T1w_to-MNI152NLin2009cAsym_mode-image_xfm.h5", n)

\* ------------------------------------------------------ pure helpers
Range(s) == { s[j] : j \in DOMAIN s }

Reverse(s) == [j \in DOMAIN s |-> s[Len(s) + 1 - j]]

\* next((comp for comp in components if comp.startswith(prefix + "-")), None)
FirstWith(components, prefix) ==
  LET hits == { j \in DOMAIN components : components[j].p = prefix }
  IN IF hits = {} THEN <<>>
     ELSE << components[CHOOSE j \in hits : \A h \in hits : j <= h] >>

_parse_filename_components(filename) ==
  [sub |-> FirstWith(filename, "sub"), ses |-> FirstWith(filename, "ses"),
   task |-> FirstWith(filename, "task"), run |-> FirstWith(filename, "run")]

\* Mutant: the parts of the key in another order, the task before the session.
_create_run_key_task_first(components) ==
  components.sub \o components.task \o components.ses \o components.run

_create_run_key(components) ==
  components.sub \o components.ses \o components.task \o components.run

\* echo_file.name.split("_echo")[0]
BaseName(name) ==
  LET hits == { j \in DOMAIN name : j > 1 /\ name[j].p = "echo" }
  IN IF hits = {} THEN name
     ELSE SubSeq(name, 1, (CHOOSE j \in hits : \A h \in hits : j <= h) - 1)

BoldToT1wPath(base) == P("func", base, "_from-boldref_to-T1w_mode-image_desc-coreg_xfm.txt", 0)

T1wRefPath(base) == P("func", base, "_space-T1w_boldref.nii.gz", 0)

MniRefPath(base) == P("func", base, "_space-MNI152NLin2009cAsym_res-2_boldref.nii.gz", 0)

\* _get_echo_file_info: [err, val]
_get_echo_file_info(echo_file, files) ==
  IF JsonPath(echo_file.name) \notin files
  THEN [err |-> Err("FileNotFoundError", "JSON sidecar not found", echo_file.name, 0),
        val |-> <<>>]
  ELSE IF echo_file.te = <<>>
  THEN [err |-> Err("ValueError", "EchoTime not found", echo_file.name, 0), val |-> <<>>]
  ELSE [err |-> NoError,
        val |-> << [file_path |-> EchoPath(echo_file.name),
                    echo_time |-> echo_file.te[1],
                    json_path |-> JsonPath(echo_file.name)] >>]

\* _find_transform_files: [err, val]
_find_transform_files(echo_file, files, anat) ==
  LET base == BaseName(echo_file.name)
      missing(p) == [err |-> Err("FileNotFoundError", "Transform file not found", p.stem, 0),
                     val |-> <<>>]
  IN IF BoldToT1wPath(base) \notin files THEN missing(BoldToT1wPath(base))
     ELSE IF T1wRefPath(base) \notin files THEN missing(T1wRefPath(base))
     ELSE IF MniRefPath(base) \notin files THEN missing(MniRefPath(base))
     ELSE IF anat = <<>>
     THEN [err |-> Err("FileNotFoundError", "T1w to MNI transform not found", <<>>, 0),
           val |-> <<>>]
     ELSE [err |-> NoError,
           val |-> << [bold_to_t1w |-> BoldToT1wPath(base),
                       t1w_reference |-> T1wRefPath(base),
                       mni_reference |-> MniRefPath(base),
                       t1w_to_mni |-> anat[1]] >>]

\* The dict run_groups, in insertion order.
HasKey(groups, key) == \E j \in DOMAIN groups : groups[j].key = key

IndexOf(groups, key) == CHOOSE j \in DOMAIN groups : groups[j].key = key

\* run_groups[key] = group
DictSet(groups, key, group) ==
  IF HasKey(groups, key) THEN [groups EXCEPT ![IndexOf(groups, key)] = group]
  ELSE Append(groups, group)

\* Mutant: the transforms are resolved and the group made anew for every echo.
AlwaysNeedsGroup(groups, key) == TRUE

\* "if run_key not in run_groups"
NeedsGroup(groups, key) == ~HasKey(groups, key)

\* Mutant: an ascending sort that is not stable, an echo going before the
\* echoes of equal echo_time that were discovered before it.
RECURSIVE InsertBeforeEqual(_, _)
InsertBeforeEqual(sorted, x) ==
  IF sorted = <<>> THEN << x >>
  ELSE IF x.echo_time <= Head(sorted).echo_time THEN << x >> \o sorted
  ELSE << Head(sorted) >> \o InsertBeforeEqual(Tail(sorted), x)

\* list.sort(key=lambda x: x.echo_time): stable, ascending
RECURSIVE InsertByTime(_, _)
InsertByTime(sorted, x) ==
  IF sorted = <<>> THEN << x >>
  ELSE IF x.echo_time < Head(sorted).echo_time THEN << x >> \o sorted
  ELSE << Head(sorted) >> \o InsertByTime(Tail(sorted), x)

\* Mutant: the echoes stay in discovery order.
Unsorted(s) == s

RECURSIVE SortByEchoTime(_)
SortByEchoTime(s) ==
  IF s = <<>> THEN <<>>
  ELSE InsertByTime(SortByEchoTime(SubSeq(s, 1, Len(s) - 1)), s[Len(s)])

\* Mutant: only a group that is too small is refused.
EchoCountTooSmall(group) == Len(group.echo_files) < 3

\* "if len(run_group.echo_files) != 3"
EchoCountWrong(group) == Len(group.echo_files) # 3

\* ------------------------------------------------------------ output tree
OutputDir(key) == P("tedana_combined", key, "_rec-tedana", 0)

OptcomPath(key) == P("tedana_combined", key, "_rec-tedana/desc-optcom_bold.nii.gz", 0)

\* Mutant: the name of the temporary file does not carry the echo index.
TempPathWithoutIndex(key, n) ==
  P("tedana_combined", key, "_rec-tedana/temp_echo-NN_trimmed.nii.gz", 1)

TempPath(key, n) == P("tedana_combined", key, "_rec-tedana/temp_echo-NN_trimmed.nii.gz", n)

\* Mutant: the T1w-space output is named without the run key.
T1wOutputWithoutKey(key) == P("transformed", <<>>, "_space-T1w_desc-optcom_bold.nii.gz", 0)

T1wOutput(key) == P("transformed", key, "_space-T1w_desc-optcom_bold.nii.gz", 0)

MniOutput(key) == P("transformed", key, "_space-MNI152NLin2009cAsym_desc-optcom_bold.nii.gz", 0)

\* ------------------------------------------------------------------ state
VARIABLES
  listing,          \* input tree: the echo files in glob enumeration order
  anat_listing,     \* input tree: matches of the anat/ T1w-to-MNI pattern
  tree,             \* input tree: "ok", "no_fmriprep" or "no_subject"
  trim_by,          \* self.trim_by
  apptainer_image,  \* self.apptainer_image is set
  fs,               \* the existing paths
  pc,               \* position in process()
  echo_files,       \* process(): echo_files
  i,                \* _group_echoes_by_run: loop index
  run_groups,       \* run_groups, in insertion order
  r,                \* process(): index of the current run group
  optcom_file,      \* process(): optcom_file
  t1w_output,       \* process(): t1w_output
  mni_output,       \* process(): mni_output
  trimmed_files,    \* _run_tedana: trimmed_files
  results,          \* process(): results, in insertion order
  error,            \* the exception in flight or raised
  invocation,       \* number of the process() invocation
  calls,            \* history: external invocations of this process() call
  stages,           \* history: stage begin/end events of this process() call
  xfm_calls,        \* history: arguments of the _find_transform_files calls
  fs0,              \* history: fs when this process() call began
  prev_failed       \* history: an earlier process() call failed

inputs == << listing, anat_listing, tree, trim_by, apptainer_image >>

locals == << echo_files, i, run_groups, r, optcom_file, t1w_output, mni_output,
             trimmed_files, results >>

history == << calls, stages, xfm_calls, fs0, prev_failed >>

vars == << inputs, fs, pc, locals, error, invocation, history >>

\* ------------------------------------------------------------- input trees
Defects == { "none", "no_fmriprep", "no_subject", "no_json", "no_te", "no_xfm", "no_anat" }

\* The paths of the input tree of `files` under `defect`; a defect of one
\* file strikes the last file listed.
InputPaths(files, defect) ==
  LET last == IF files = <<>> THEN <<>> ELSE files[Len(files)].name
      names == { files[j].name : j \in DOMAIN files }
  IN { EchoPath(n) : n \in names }
     \cup { JsonPath(n) : n \in { m \in names : ~(defect = "no_json" /\ m = last) } }
     \cup { BoldToT1wPath(BaseName(n)) : n \in names }
     \cup { T1wRefPath(BaseName(n)) : n \in names }
     \cup { MniRefPath(BaseName(n)) :
              n \in { m \in names : ~(defect = "no_xfm" /\ BaseName(m) = BaseName(last)) } }
     \cup (IF defect = "no_anat" THEN {} ELSE { AnatXfm(1) })

WithDefect(files, defect) ==
  IF defect = "no_te" /\ files # <<>>
  THEN [files EXCEPT ![Len(files)].te = <<>>]
  ELSE files

\* The first n1 files of run 1 and the first n2 files of run 2, in name order.
ListingOf(n1, n2) == SubSeq(Run1Files, 1, n1) \o SubSeq(Run2Files, 1, n2)

\* All enumerations without repetition of at most n files of U.
RECURSIVE EnumerationsOf(_, _)
EnumerationsOf(U, n) ==
  IF n = 0 THEN { <<>> }
  ELSE LET shorter == EnumerationsOf(U, n - 1)
       IN shorter \cup UNION { { Append(s, e) : e \in U \ Range(s) } :
                                s \in { q \in shorter : Len(q) = n - 1 } }

Enumerations(n) == EnumerationsOf(Universe, n)

InitWith(files, defect, trim, apptainer) ==
  /\ listing = WithDefect(files, defect)
  /\ anat_listing = (IF defect = "no_anat" THEN <<>> ELSE << AnatXfm(1) >>)
  /\ tree = (IF defect \in { "no_fmriprep", "no_subject" } THEN defect ELSE "ok")
  /\ trim_by = trim
  /\ apptainer_image = apptainer
  /\ fs = InputPaths(files, defect)
  /\ pc = "start"
  /\ echo_files = <<>>
  /\ i = 1
  /\ run_groups = <<>>
  /\ r = 1
  /\ optcom_file = NoPath
  /\ t1w_output = NoPath
  /\ mni_output = NoPath
  /\ trimmed_files = <<>>
  /\ results = <<>>
  /\ error = NoError
  /\ invocation = 1
  /\ calls = <<>>
  /\ stages = <<>>
  /\ xfm_calls = <<>>
  /\ fs0 = InputPaths(files, defect)
  /\ prev_failed = FALSE

\* process() on a subject whose files are listed in name order or in the
\* reverse order.
Init ==
  \E n1 \in 0..Len(Run1Files), n2 \in 0..Len(Run2Files), rev \in BOOLEAN,
     defect \in Defects, trim \in 0..MaxTrim, apptainer \in BOOLEAN :
    /\ n1 + n2 <= MaxFiles
    /\ InitWith(IF rev THEN Reverse(ListingOf(n1, n2)) ELSE ListingOf(n1, n2),
                defect, trim, apptainer)

\* Discovery and grouping over every enumeration order.
InitGroup ==
  \E files \in Enumerations(MaxFiles) : InitWith(files, "none", 0, FALSE)

\* Discovery and grouping of the files of NameUniverse, in every order.
InitNames ==
  \E files \in EnumerationsOf(NameUniverse, MaxFiles) : InitWith(files, "none", 0, FALSE)

\* ----------------------------------------------------------------- raising
Raise(e) ==
  /\ pc' = "failed"
  /\ error' = e

\* --------------------------------------------- process(): discovery, grouping
StartProcess ==
  /\ pc = "start"
  /\ fs0' = fs
  /\ IF tree = "no_fmriprep"
     THEN /\ Raise(Err("ValueError", "fMRIPrep directory does not exist", <<>>, 0))
          /\ UNCHANGED echo_files
     ELSE IF tree = "no_subject"
     THEN /\ Raise(Err("ValueError", "Subject directory does not exist", <<>>, 0))
          /\ UNCHANGED echo_files
     ELSE /\ echo_files' = listing
          /\ pc' = "group"
          /\ UNCHANGED error
  /\ UNCHANGED << inputs, fs, i, run_groups, r, optcom_file, t1w_output, mni_output,
                  trimmed_files, results, invocation, calls, stages, xfm_calls,
                  prev_failed >>

\* One iteration of the loop of _group_echoes_by_run.
GroupEcho ==
  /\ pc = "group"
  /\ i <= Len(echo_files)
  /\ LET echo_file == echo_files[i]
         run_key == _create_run_key(_parse_filename_components(echo_file.name))
         info == _get_echo_file_info(echo_file, fs)
         tr == _find_transform_files(echo_file, fs, anat_listing)
         called == [file |-> echo_file.name, key |-> run_key]
     IN IF info.err # NoError
        THEN /\ Raise(info.err)
             /\ UNCHANGED << i, run_groups, xfm_calls >>
        ELSE IF NeedsGroup(run_groups, run_key)
        THEN /\ xfm_calls' = Append(xfm_calls, called)
             /\ IF tr.err # NoError
                THEN /\ Raise(tr.err)
                     /\ UNCHANGED << i, run_groups >>
                ELSE /\ run_groups' =
                          DictSet(run_groups, run_key,
                                  [key |-> run_key, echo_files |-> info.val,
                                   transforms |-> tr.val[1]])
                     /\ i' = i + 1
                     /\ UNCHANGED << pc, error >>
        ELSE /\ run_groups' =
                  [run_groups EXCEPT ![IndexOf(run_groups, run_key)].echo_files =
                                        Append(@, info.val[1])]
             /\ i' = i + 1
             /\ UNCHANGED << pc, error, xfm_calls >>
  /\ UNCHANGED << inputs, fs, echo_files, r, optcom_file, t1w_output, mni_output,
                  trimmed_files, results, invocation, calls, stages, fs0, prev_failed >>

\* The sorting loop of _group_echoes_by_run and its return.
SortGroups ==
  /\ pc = "group"
  /\ i > Len(echo_files)
  /\ run_groups' = [j \in DOMAIN run_groups |->
                      [run_groups[j] EXCEPT !.echo_files = SortByEchoTime(@)]]
  /\ pc' = "validate"
  /\ UNCHANGED << inputs, fs, echo_files, i, r, optcom_file, t1w_output, mni_output,
                  trimmed_files, results, error, invocation, history >>

\* Mutant: only the group about to be processed first is validated before
\* the run loop begins.
ValidateFirstOnly ==
  /\ pc = "validate"
  /\ IF run_groups # <<>> /\ EchoCountWrong(run_groups[1])
     THEN Raise(Err("ValueError", "must have exactly 3 echoes",
                    run_groups[1].key, Len(run_groups[1].echo_files)))
     ELSE /\ pc' = "run"
          /\ UNCHANGED error
  /\ UNCHANGED << inputs, fs, locals, invocation, history >>

\* The echo-count loop of process().
Validate ==
  /\ pc = "validate"
  /\ LET bad == { j \in DOMAIN run_groups : EchoCountWrong(run_groups[j]) }
         first == CHOOSE j \in bad : \A h \in bad : j <= h
     IN IF bad # {}
        THEN Raise(Err("ValueError", "must have exactly 3 echoes",
                       run_groups[first].key, Len(run_groups[first].echo_files)))
        ELSE /\ pc' = "run"
             /\ UNCHANGED error
  /\ UNCHANGED << inputs, fs, locals, invocation, history >>

\* ------------------------------------------------ external invocations
Call(op, key, sources, echo_times, transforms, reference, output, ok, wrote) ==
  [op |-> op, key |-> key, sources |-> sources, echo_times |-> echo_times,
   transforms |-> transforms, reference |-> reference, output |-> output,
   ok |-> ok, wrote |-> wrote]

Event(ev, stage, key) == [ev |-> ev, stage |-> stage, key |-> key]

\* ------------------------------------------------- process(): stage order
\* The body of the run loop: _run_tedana, then the T1w-space and the
\* MNI-space call of _process_tedana_outputs, then the result record.
\* Mutant: the MNI-space call before the T1w-space call.
NextStageSwapped(stage) ==
  CASE stage = "combination" -> "mni"
    [] stage = "mni" -> "t1w"
    [] stage = "t1w" -> "store"

NextStage(stage) ==
  CASE stage = "combination" -> "t1w"
    [] stage = "t1w" -> "mni"
    [] stage = "mni" -> "store"

\* ------------------------------------------------------------ _run_tedana
\* Mutant: the combination stage never skips.
TedanaNeverSkips(files, key) == FALSE

\* "if optcom_file.exists()" on entry
TedanaSkips(files, key) == OptcomPath(key) \in files

\* Mutant: the output is not verified.
NeverMissing(files, key) == FALSE

\* "if not optcom_file.exists()" after the combination call
OutputMissing(files, key) == OptcomPath(key) \notin files

\* The except clause: unlink every file of trimmed_files that exists.
CleanedUp(files, trimmed) == files \ Range(trimmed)

\* Entry of _run_tedana up to the choice between trimming and combining.
RunTedanaEnter ==
  /\ pc = "run"
  /\ r <= Len(run_groups)
  /\ LET key == run_groups[r].key
     IN IF TedanaSkips(fs, key)
        THEN /\ optcom_file' = OptcomPath(key)
             /\ pc' = NextStage("combination")
             /\ stages' = stages \o << Event("begin", "combination", key),
                                       Event("end", "combination", key) >>
        ELSE /\ pc' = (IF trim_by > 0 THEN "trim" ELSE "combine")
             /\ stages' = Append(stages, Event("begin", "combination", key))
             /\ UNCHANGED optcom_file
  /\ trimmed_files' = <<>>
  /\ UNCHANGED << inputs, fs, echo_files, i, run_groups, r, t1w_output, mni_output,
                  results, error, invocation, calls, xfm_calls, fs0, prev_failed >>

\* One iteration of the trimming loop: load, trim, save, append.  A save that
\* raises may have created the file already.
TrimEcho ==
  /\ pc = "trim"
  /\ LET group == run_groups[r]
         n == Len(trimmed_files) + 1
         echo_info == group.echo_files[n]
         temp_file == TempPath(group.key, n)
         call(ok, wrote) == Call("load_trim_save", group.key, << echo_info.file_path >>,
                                 << echo_info.echo_time >>, <<>>, NoPath, temp_file,
                                 ok, wrote)
     IN \E outcome \in { "saved", "load_raises", "save_raises", "save_raises_partial" } :
          IF outcome = "saved"
          THEN /\ fs' = fs \cup { temp_file }
               /\ trimmed_files' = Append(trimmed_files, temp_file)
               /\ calls' = Append(calls, call(TRUE, TRUE))
               /\ pc' = (IF n = Len(group.echo_files) THEN "combine" ELSE "trim")
               /\ UNCHANGED error
          ELSE /\ fs' = (IF outcome = "save_raises_partial" THEN fs \cup { temp_file }
                         ELSE fs)
               /\ calls' = Append(calls, call(FALSE, outcome = "save_raises_partial"))
               /\ pc' = "except"
               /\ error' = Err(IF outcome = "load_raises" THEN "LoadError" ELSE "SaveError",
                               outcome, group.key, n)
               /\ UNCHANGED trimmed_files
  /\ UNCHANGED << inputs, echo_files, i, run_groups, r, optcom_file, t1w_output,
                  mni_output, results, invocation, stages, xfm_calls, fs0, prev_failed >>

\* The t2smap_workflow call, against the trimmed files or the originals.
Combine ==
  /\ pc = "combine"
  /\ LET group == run_groups[r]
         echo_times == [j \in DOMAIN group.echo_files |-> group.echo_files[j].echo_time]
         echo_file_paths == [j \in DOMAIN group.echo_files |-> group.echo_files[j].file_path]
         sources == IF trim_by > 0 THEN trimmed_files ELSE echo_file_paths
     IN \E returns \in BOOLEAN, wrote \in BOOLEAN :
          /\ fs' = (IF wrote THEN fs \cup { OptcomPath(group.key) } ELSE fs)
          /\ calls' = Append(calls, Call("t2smap_workflow", group.key, sources, echo_times,
                                         <<>>, NoPath, OutputDir(group.key), returns, wrote))
          /\ IF returns
             THEN /\ pc' = (IF trim_by > 0 THEN "unlink" ELSE "verify")
                  /\ UNCHANGED error
             ELSE /\ pc' = (IF trim_by > 0 THEN "except" ELSE "failed")
                  /\ error' = Err("CombinationError", "t2smap_workflow raised", group.key, 0)
  /\ UNCHANGED << inputs, echo_files, i, run_groups, r, optcom_file, t1w_output,
                  mni_output, trimmed_files, results, invocation, stages, xfm_calls,
                  fs0, prev_failed >>

\* Mutant: the cleanup after the call unlinks the files that were combined
\* from, echo_file_paths, as well.
UnlinkSources ==
  /\ pc = "unlink"
  /\ fs' = fs \ (Range(trimmed_files)
                 \cup { run_groups[r].echo_files[j].file_path :
                          j \in DOMAIN run_groups[r].echo_files })
  /\ pc' = "verify"
  /\ UNCHANGED << inputs, locals, error, invocation, history >>

\* "for temp_file in trimmed_files: Path(temp_file).unlink()" after the call.
UnlinkTrimmed ==
  /\ pc = "unlink"
  /\ LET gone == { j \in DOMAIN trimmed_files : trimmed_files[j] \notin fs }
         first == CHOOSE j \in gone : \A h \in gone : j <= h
     IN IF gone = {}
        THEN /\ fs' = fs \ Range(trimmed_files)
             /\ pc' = "verify"
             /\ UNCHANGED error
        ELSE /\ fs' = fs \ { trimmed_files[j] : j \in 1..(first - 1) }
             /\ pc' = "except"
             /\ error' = Err("FileNotFoundError", "unlink", run_groups[r].key, first)
  /\ UNCHANGED << inputs, locals, invocation, history >>

\* Mutant: the except clause cleans up and does not re-raise.
CleanupAndSwallow ==
  /\ pc = "except"
  /\ fs' = CleanedUp(fs, trimmed_files)
  /\ pc' = "verify"
  /\ UNCHANGED << inputs, locals, error, invocation, history >>

\* The except clause: clean up, then "raise e".
CleanupAndRaise ==
  /\ pc = "except"
  /\ fs' = CleanedUp(fs, trimmed_files)
  /\ pc' = "failed"
  /\ UNCHANGED << inputs, locals, error, invocation, history >>

\* "if not optcom_file.exists(): raise" and the return.
VerifyOutput ==
  /\ pc = "verify"
  /\ LET key == run_groups[r].key
     IN IF OutputMissing(fs, key)
        THEN /\ Raise(Err("FileNotFoundError", "Tedana output not found", key, 0))
             /\ UNCHANGED << optcom_file, stages >>
        ELSE /\ optcom_file' = OptcomPath(key)
             /\ pc' = NextStage("combination")
             /\ stages' = Append(stages, Event("end", "combination", key))
             /\ UNCHANGED error
  /\ UNCHANGED << inputs, fs, echo_files, i, run_groups, r, t1w_output, mni_output,
                  trimmed_files, results, invocation, calls, xfm_calls, fs0, prev_failed >>

\* ------------------------------------------------------- _apply_transforms
\* Mutant: the projection never skips.
ApplyNeverSkips(files, output_path) == FALSE

\* "if output_path.exists()"
ApplySkips(files, output_path) == output_path \in files

\* The command line takes the transforms in the order of the list.
TransformArgs(transforms) == [j \in DOMAIN transforms |-> transforms[j]]

\* Mutant: the exit status of the tool is not looked at, and output_path is
\* returned whatever it is.
_apply_transforms_unchecked(key, input_image, output_path, transforms, reference, returns) ==
  IF ApplySkips(fs, output_path)
  THEN /\ returns
       /\ calls' = Append(calls, Call("skip_existing", key, << input_image >>, <<>>,
                                      TransformArgs(transforms), reference, output_path,
                                      TRUE, FALSE))
       /\ UNCHANGED fs
  ELSE \E wrote \in BOOLEAN, status \in BOOLEAN :
         /\ returns
         /\ fs' = (IF wrote THEN fs \cup { output_path } ELSE fs)
         /\ calls' = Append(calls, Call("antsApplyTransforms", key, << input_image >>, <<>>,
                                        TransformArgs(transforms), reference, output_path,
                                        status, wrote))

\* _apply_transforms; `returns` is whether it returns output_path or raises.
_apply_transforms(key, input_image, output_path, transforms, reference, returns) ==
  IF ApplySkips(fs, output_path)
  THEN /\ returns
       /\ calls' = Append(calls, Call("skip_existing", key, << input_image >>, <<>>,
                                      TransformArgs(transforms), reference, output_path,
                                      TRUE, FALSE))
       /\ UNCHANGED fs
  ELSE \E wrote \in BOOLEAN :
         /\ fs' = (IF wrote THEN fs \cup { output_path } ELSE fs)
         /\ calls' = Append(calls, Call("antsApplyTransforms", key, << input_image >>, <<>>,
                                        TransformArgs(transforms), reference, output_path,
                                        returns, wrote))

ProjectionError(key) ==
  IF apptainer_image THEN Err("RuntimeError", "antsApplyTransforms failed", key, 0)
  ELSE Err("NipypeError", "ApplyTransforms.run raised", key, 0)

\* ------------------------------------------------- _process_tedana_outputs
T1wTransforms(transforms) == << transforms.bold_to_t1w >>

\* Mutant: the two transforms in the other order.
MniTransformsSwapped(transforms) == << transforms.bold_to_t1w, transforms.t1w_to_mni >>

MniTransforms(transforms) == << transforms.t1w_to_mni, transforms.bold_to_t1w >>

\* The T1w-space call of _process_tedana_outputs.
ProjectT1w ==
  /\ pc = "t1w"
  /\ LET group == run_groups[r]
     IN \E returns \in BOOLEAN :
          /\ _apply_transforms(group.key, optcom_file, T1wOutput(group.key),
                               T1wTransforms(group.transforms),
                               group.transforms.t1w_reference, returns)
          /\ IF returns
             THEN /\ t1w_output' = T1wOutput(group.key)
                  /\ pc' = NextStage("t1w")
                  /\ stages' = stages \o << Event("begin", "anat", group.key),
                                            Event("end", "anat", group.key) >>
                  /\ UNCHANGED error
             ELSE /\ Raise(ProjectionError(group.key))
                  /\ stages' = Append(stages, Event("begin", "anat", group.key))
                  /\ UNCHANGED t1w_output
  /\ UNCHANGED << inputs, echo_files, i, run_groups, r, optcom_file, mni_output,
                  trimmed_files, results, invocation, xfm_calls, fs0, prev_failed >>

\* The MNI-space call of _process_tedana_outputs and its return.
ProjectMni ==
  /\ pc = "mni"
  /\ LET group == run_groups[r]
     IN \E returns \in BOOLEAN :
          /\ _apply_transforms(group.key, optcom_file, MniOutput(group.key),
                               MniTransforms(group.transforms),
                               group.transforms.mni_reference, returns)
          /\ IF returns
             THEN /\ mni_output' = MniOutput(group.key)
                  /\ pc' = NextStage("mni")
                  /\ stages' = stages \o << Event("begin", "std", group.key),
                                            Event("end", "std", group.key) >>
                  /\ UNCHANGED error
             ELSE /\ Raise(ProjectionError(group.key))
                  /\ stages' = Append(stages, Event("begin", "std", group.key))
                  /\ UNCHANGED mni_output
  /\ UNCHANGED << inputs, echo_files, i, run_groups, r, optcom_file, t1w_output,
                  trimmed_files, results, invocation, xfm_calls, fs0, prev_failed >>

\* ------------------------------------------------- process(): the run loop
\* Mutant: the record holds the two projected paths in the other order.
StoreResultSwapped ==
  /\ pc = "store"
  /\ results' = Append(results, [key |-> run_groups[r].key, optcom |-> optcom_file,
                                 t1w |-> mni_output, mni |-> t1w_output])
  /\ stages' = Append(stages, Event("end", "store", run_groups[r].key))
  /\ r' = r + 1
  /\ pc' = "run"
  /\ UNCHANGED << inputs, fs, echo_files, i, run_groups, optcom_file, t1w_output,
                  mni_output, trimmed_files, error, invocation, calls, xfm_calls, fs0,
                  prev_failed >>

\* "results[run_key] = (optcom_file, t1w_output, mni_output)" and the loop step.
StoreResult ==
  /\ pc = "store"
  /\ results' = Append(results, [key |-> run_groups[r].key, optcom |-> optcom_file,
                                 t1w |-> t1w_output, mni |-> mni_output])
  /\ stages' = Append(stages, Event("end", "store", run_groups[r].key))
  /\ r' = r + 1
  /\ pc' = "run"
  /\ UNCHANGED << inputs, fs, echo_files, i, run_groups, optcom_file, t1w_output,
                  mni_output, trimmed_files, error, invocation, calls, xfm_calls, fs0,
                  prev_failed >>

\* "return results"
Return ==
  /\ pc = "run"
  /\ r > Len(run_groups)
  /\ pc' = "done"
  /\ UNCHANGED << inputs, fs, locals, error, invocation, history >>

\* process() is invoked again on the same inputs and the same output tree.
Reinvoke ==
  /\ pc \in { "done", "failed" }
  /\ invocation < MaxInvocations
  /\ invocation' = invocation + 1
  /\ prev_failed' = (prev_failed \/ pc = "failed")
  /\ pc' = "start"
  /\ echo_files' = <<>>
  /\ i' = 1
  /\ run_groups' = <<>>
  /\ r' = 1
  /\ optcom_file' = NoPath
  /\ t1w_output' = NoPath
  /\ mni_output' = NoPath
  /\ trimmed_files' = <<>>
  /\ results' = <<>>
  /\ error' = NoError
  /\ calls' = <<>>
  /\ stages' = <<>>
  /\ xfm_calls' = <<>>
  /\ UNCHANGED << inputs, fs, fs0 >>

NextGroup == StartProcess \/ GroupEcho \/ SortGroups \/ Validate

SpecGroup == InitGroup /\ [][NextGroup]_vars

SpecNames == InitNames /\ [][NextGroup]_vars

Next ==
  \/ StartProcess \/ GroupEcho \/ SortGroups \/ Validate
  \/ RunTedanaEnter \/ TrimEcho \/ Combine \/ UnlinkTrimmed \/ CleanupAndRaise
  \/ VerifyOutput \/ ProjectT1w \/ ProjectMni \/ StoreResult \/ Return \/ Reinvoke

Spec == Init /\ [][Next]_vars

\* ================================================================ claims
KeyOf(entry) == _create_run_key(_parse_filename_components(entry.name))

ListedKeys == { KeyOf(listing[j]) : j \in DOMAIN listing }

GroupKeys == { run_groups[j].key : j \in DOMAIN run_groups }

CountInListing(key) == Cardinality({ j \in DOMAIN listing : KeyOf(listing[j]) = key })

\* Grouping and the echo-count validation of this process() call are over.
Validated ==
  /\ tree = "ok"
  /\ pc \notin { "start", "group", "validate" }
  /\ i > Len(echo_files)

CombinationBegun(key) == Event("begin", "combination", key) \in Range(stages)

CombinationReturned(key) == Event("end", "combination", key) \in Range(stages)

\* ------------------------------------------------------------------ C1
\* C1 (as claimed): when _run_tedana exits with an error raised while
\* trimming (load, trim, save) or by the combination call of a trimmed
\* run, no temporary artifact written for that run in this call exists,
\* and the error raised is the one of the failing step.
C1_TempFilesGoneOnError ==
  (pc = "failed" /\ trim_by > 0
     /\ error.type \in { "LoadError", "SaveError", "CombinationError" })
  => /\ \A c \in Range(calls) :
          (c.op = "load_trim_save" /\ c.wrote /\ c.key = error.key) => c.output \notin fs
     /\ calls # <<>>
     /\ ~calls[Len(calls)].ok
     /\ calls[Len(calls)].key = error.key

\* ------------------------------------------------------------------ C2
\* C2: when _run_tedana is entered for a run whose combined output exists
\* already, it returns that path, and neither the trimming nor the
\* combination capability is invoked for that run and no temporary artifact
\* of the run is created, whatever trim_by is.
C2_SkipWhenOutputExists ==
  \A j \in DOMAIN run_groups :
    LET key == run_groups[j].key
    IN (OptcomPath(key) \in fs0 /\ CombinationBegun(key))
       => /\ CombinationReturned(key)
          /\ \A c \in Range(calls) :
               c.key = key => c.op \notin { "t2smap_workflow", "load_trim_save" }
          /\ \A n \in DOMAIN run_groups[j].echo_files :
               TempPath(key, n) \in fs => TempPath(key, n) \in fs0
          /\ (j = r => optcom_file = OptcomPath(key))
          /\ (j < r => results[j].optcom = OptcomPath(key))

C2_Witness ==
  /\ invocation = 2
  /\ trim_by > 0
  /\ pc = "done"
  /\ \E j \in DOMAIN run_groups :
       /\ OptcomPath(run_groups[j].key) \in fs0
       /\ CombinationReturned(run_groups[j].key)

\* ------------------------------------------------------------------ C3
Mismatch(e) == e.type = "ValueError" /\ e.msg = "must have exactly 3 echoes"

\* C3: once grouping has succeeded, process() has failed with the
\* echo-count error, naming a run key and the number of files discovered
\* for it, before any stage, exactly when some run has a number of echoes
\* other than 3; every discovered key has its group; the error arises
\* nowhere else.
C3_EchoCountMismatch ==
  /\ Validated =>
       /\ GroupKeys = ListedKeys
       /\ IF \E k \in ListedKeys : CountInListing(k) # 3
          THEN /\ pc = "failed"
               /\ Mismatch(error)
               /\ error.key \in ListedKeys
               /\ error.count = CountInListing(error.key)
               /\ error.count # 3
               /\ stages = <<>>
               /\ calls = <<>>
          ELSE ~Mismatch(error)
  /\ Mismatch(error) => Validated

C3_Witness ==
  /\ pc = "failed"
  /\ Mismatch(error)
  /\ error.count = 4
  /\ Len(run_groups) = 2

\* ------------------------------------------------------------------ C4
InfoOf(entry) == _get_echo_file_info(entry, fs).val[1]

\* _group_echoes_by_run has returned.
Grouped ==
  /\ tree = "ok"
  /\ pc \notin { "start", "group" }
  /\ i > Len(echo_files)

ThreeDistinctEchoes ==
  \A k \in ListedKeys :
    /\ CountInListing(k) = 3
    /\ \A a, b \in DOMAIN listing :
         (a # b /\ KeyOf(listing[a]) = k /\ KeyOf(listing[b]) = k)
         => listing[a].te # listing[b].te

\* C4: for files whose runs have three echoes each with distinct echo
\* times, in any enumeration order, grouping yields one group per key, the
\* group holds exactly the echoes of the files with that key, and its echoes
\* are in ascending echo_time order.
C4_GroupingSorted ==
  (Grouped /\ ThreeDistinctEchoes)
  => /\ \A a, b \in DOMAIN run_groups : a # b => run_groups[a].key # run_groups[b].key
     /\ GroupKeys = ListedKeys
     /\ \A j \in DOMAIN run_groups :
          LET g == run_groups[j]
          IN /\ Len(g.echo_files) = 3
             /\ Range(g.echo_files) =
                  { InfoOf(listing[m]) : m \in { n \in DOMAIN listing :
                                                   KeyOf(listing[n]) = g.key } }
             /\ \A a, b \in DOMAIN g.echo_files :
                  a < b => g.echo_files[a].echo_time < g.echo_files[b].echo_time

C4_Witness ==
  /\ Grouped
  /\ ThreeDistinctEchoes
  /\ Len(run_groups) = 2
  /\ listing[1].te = << 3 >>
  /\ KeyOf(listing[1]) # KeyOf(listing[2])
  /\ KeyOf(listing[2]) # KeyOf(listing[3])

\* ------------------------------------------------------------------ C5
IsProjection(c) == c.op \in { "antsApplyTransforms", "skip_existing" }

ProjectionsOf(key) == SelectSeq(calls, LAMBDA c : IsProjection(c) /\ c.key = key)

IsT1wProjection(c, g) ==
  /\ c.sources = << OptcomPath(g.key) >>
  /\ c.output = T1wOutput(g.key)
  /\ c.transforms = << g.transforms.bold_to_t1w >>
  /\ c.reference = g.transforms.t1w_reference

IsMniProjection(c, g) ==
  /\ c.sources = << OptcomPath(g.key) >>
  /\ c.output = MniOutput(g.key)
  /\ c.transforms = << g.transforms.t1w_to_mni, g.transforms.bold_to_t1w >>
  /\ c.reference = g.transforms.mni_reference

\* C5: the projection stage is entered, for a run, first with
\* [bold_to_t1w] against the T1w reference and then with
\* [t1w_to_mni, bold_to_t1w] against the MNI reference, both on the run's
\* combined output, and never otherwise; a run whose result is stored has
\* had exactly these two.
C5_TwoProjections ==
  \A j \in DOMAIN run_groups :
    LET g == run_groups[j]
        ps == ProjectionsOf(g.key)
    IN /\ Len(ps) <= 2
       /\ Len(ps) >= 1 => IsT1wProjection(ps[1], g)
       /\ Len(ps) >= 2 => IsMniProjection(ps[2], g)
       /\ (\E m \in DOMAIN results : results[m].key = g.key) => Len(ps) = 2

C5_Witness ==
  /\ pc = "done"
  /\ Len(results) = 2
  /\ \A c \in Range(calls) : IsProjection(c) => c.op = "antsApplyTransforms"

\* ------------------------------------------------------------------ C6
SlotEvent == << "begin", "end", "begin", "end", "begin", "end", "end" >>

SlotStage == << "combination", "combination", "anat", "anat", "std", "std", "store" >>

GroupIdx(key) == IndexOf(run_groups, key)

CallRank(c) ==
  IF c.op \in { "load_trim_save", "t2smap_workflow" } THEN 1
  ELSE IF c.output = T1wOutput(c.key) THEN 2 ELSE 3

\* C6: the stage events of a process() call are a prefix of the schedule
\* "combination, T1w projection, MNI projection, result stored" run by run
\* in the order of run_groups; the stored results are those of the runs
\* whose schedule is complete; the external calls follow the same order.
C6_StagesInOrder ==
  /\ Len(stages) <= 7 * Len(run_groups)
  /\ \A p \in DOMAIN stages :
       stages[p] = Event(SlotEvent[((p - 1) % 7) + 1], SlotStage[((p - 1) % 7) + 1],
                         run_groups[((p - 1) \div 7) + 1].key)
  /\ Len(results) = Len(stages) \div 7
  /\ \A j \in DOMAIN results : results[j].key = run_groups[j].key
  /\ stages # <<>> => r = Len(results) + 1
  /\ \A a, b \in DOMAIN calls :
       a < b => /\ GroupIdx(calls[a].key) <= GroupIdx(calls[b].key)
                /\ calls[a].key = calls[b].key => CallRank(calls[a]) <= CallRank(calls[b])
  /\ \A c \in Range(calls) :
       /\ GroupIdx(c.key) <= Len(results) + 1
       /\ Event("begin", SlotStage[2 * CallRank(c)], c.key) \in Range(stages)

C6_Witness ==
  /\ pc = "done"
  /\ Len(stages) = 14
  /\ Len(calls) >= 6

\* ------------------------------------------------------------------ C7
AllSucceed == \A c \in Range(calls) : c.ok /\ (c.wrote \/ c.op = "skip_existing")

DeclaredOutput(c) ==
  IF c.op \in { "load_trim_save", "t2smap_workflow" } THEN OptcomPath(c.key) ELSE c.output

Executed(op, output) == \E c \in Range(calls) : c.op = op /\ c.output = output

\* The echo-count validation has passed.
RunLoopEntered == Validated /\ ~Mismatch(error)

\* C7: in every process() call, the first or one after a failed call, a
\* stage is executed exactly when its declared output did not exist when
\* the call began; a call whose external invocations all succeed and write
\* their outputs does not fail once grouping has passed, can always take
\* its next step, and when it returns it has executed every stage whose
\* output was absent.
C7_ResumeAfterFailure ==
  /\ \A c \in Range(calls) : (c.op = "skip_existing") <=> (DeclaredOutput(c) \in fs0)
  /\ \A j \in DOMAIN run_groups :
       CombinationReturned(run_groups[j].key)
       => (OptcomPath(run_groups[j].key) \in fs0
             <=> ~Executed("t2smap_workflow", OutputDir(run_groups[j].key)))
  /\ (AllSucceed /\ RunLoopEntered) => pc \notin { "failed", "except" }
  /\ (AllSucceed /\ RunLoopEntered /\ pc # "done") => ENABLED Next
  /\ pc = "done" =>
       \A j \in DOMAIN run_groups :
         LET key == run_groups[j].key
         IN /\ OptcomPath(key) \notin fs0 => Executed("t2smap_workflow", OutputDir(key))
            /\ T1wOutput(key) \notin fs0 => Executed("antsApplyTransforms", T1wOutput(key))
            /\ MniOutput(key) \notin fs0 => Executed("antsApplyTransforms", MniOutput(key))

C7_Witness ==
  /\ invocation = 2
  /\ prev_failed
  /\ pc = "done"
  /\ AllSucceed
  /\ Len(run_groups) = 2
  /\ \E c \in Range(calls) : c.op = "skip_existing"
  /\ \E c \in Range(calls) : c.op = "antsApplyTransforms"
  /\ \E c \in Range(calls) : c.op = "t2smap_workflow"
  /\ \E j \in DOMAIN run_groups : OptcomPath(run_groups[j].key) \in fs0

\* ------------------------------------------------------------------ C8
OutputNotFound(key) == Err("FileNotFoundError", "Tedana output not found", key, 0)

\* C8: a path returned by _run_tedana exists; when the combination call
\* has returned normally and the declared output does not exist,
\* _run_tedana is on its way to the output check or has raised the
\* output-not-found error.
C8_OutputVerified ==
  /\ optcom_file # NoPath => optcom_file \in fs
  /\ \A j \in DOMAIN results : results[j].optcom \in fs
  /\ \A j \in DOMAIN run_groups :
       CombinationReturned(run_groups[j].key) => OptcomPath(run_groups[j].key) \in fs
  /\ \A c \in Range(calls) :
       (c.op = "t2smap_workflow" /\ c.ok /\ OptcomPath(c.key) \notin fs)
       => \/ pc \in { "unlink", "verify" }
          \/ pc = "failed" /\ error = OutputNotFound(c.key)

C8_Witness ==
  /\ pc = "failed"
  /\ trim_by > 0
  /\ calls # <<>>
  /\ calls[Len(calls)].op = "t2smap_workflow"
  /\ calls[Len(calls)].ok
  /\ error = OutputNotFound(calls[Len(calls)].key)

\* ------------------------------------------------------------------ C9
StageFailure ==
  /\ pc \in { "except", "failed" }
  /\ Validated
  /\ ~Mismatch(error)

\* C9: an error, once raised, is never dropped: process() is in the except
\* clause of _run_tedana or has failed, and returns nothing; when a stage of
\* run r has failed, the results hold the runs before r only, the failed
\* stage has not ended, no stage or external call of a later run has taken
\* place, and no external call was made twice.
C9_ErrorsAreFatal ==
  /\ error # NoError => pc \in { "except", "failed" }
  /\ pc \in { "except", "failed" } => error # NoError
  /\ pc = "done" => Len(results) = Len(run_groups)
  /\ StageFailure =>
       /\ r <= Len(run_groups)
       /\ Len(results) = r - 1
       /\ error.key = run_groups[r].key
       /\ stages # <<>>
       /\ stages[Len(stages)].ev = "begin"
       /\ stages[Len(stages)].key = run_groups[r].key
       /\ \A e \in Range(stages) : GroupIdx(e.key) <= r
       /\ \A c \in Range(calls) : GroupIdx(c.key) <= r
  /\ \A a, b \in DOMAIN calls :
       (a # b /\ calls[a].op = calls[b].op) => calls[a].output # calls[b].output

C9_Witness ==
  /\ pc = "failed"
  /\ Len(run_groups) = 2
  /\ r = 1
  /\ error.type \in { "RuntimeError", "NipypeError" }
  /\ T1wOutput(run_groups[1].key) \in fs

\* ----------------------------------------------------------------- C10
XfmKeys == { xfm_calls[a].key : a \in DOMAIN xfm_calls }

\* C10: _find_transform_files is called at most once per run key, each
\* time on the first file of that key in enumeration order; every group has
\* had its call, and holds the TransformFiles that call returned.
C10_TransformsOncePerRun ==
  /\ \A a, b \in DOMAIN xfm_calls : a # b => xfm_calls[a].key # xfm_calls[b].key
  /\ \A a \in DOMAIN xfm_calls :
       \E m \in DOMAIN echo_files :
         /\ echo_files[m].name = xfm_calls[a].file
         /\ KeyOf(echo_files[m]) = xfm_calls[a].key
         /\ \A n \in 1..(m - 1) : KeyOf(echo_files[n]) # xfm_calls[a].key
  /\ GroupKeys \subseteq XfmKeys
  /\ Grouped => XfmKeys = ListedKeys
  /\ \A j \in DOMAIN run_groups :
       \E m \in DOMAIN echo_files :
         /\ KeyOf(echo_files[m]) = run_groups[j].key
         /\ \A n \in 1..(m - 1) : KeyOf(echo_files[n]) # run_groups[j].key
         /\ << run_groups[j].transforms >> =
              _find_transform_files(echo_files[m], fs, anat_listing).val

C10_Witness ==
  /\ Grouped
  /\ Len(echo_files) = 6
  /\ Len(xfm_calls) = 2
  /\ xfm_calls[1].file = EchoName("2", "3")
  /\ xfm_calls[2].file = EchoName("1", "4")

\* ----------------------------------------------------------------- C11
FilesOfKey(key) == { listing[m] : m \in { n \in DOMAIN listing : KeyOf(listing[n]) = key } }

DistinctTimesPerKey ==
  \A a, b \in DOMAIN listing :
    (a # b /\ KeyOf(listing[a]) = KeyOf(listing[b])) => listing[a].te # listing[b].te

Ascending(echoes) ==
  \A a, b \in DOMAIN echoes : a < b => echoes[a].echo_time < echoes[b].echo_time

\* C11 (as claimed): what grouping returns is fixed by the set of files, not
\* by their enumeration order: the keys are those of the files, the echoes
\* of a key are its files in ascending echo_time order, and the
\* TransformFiles of a key are what _find_transform_files returns on any
\* file of that key, whichever triggered the resolution.
C11_GroupingIgnoresOrder ==
  (Grouped /\ DistinctTimesPerKey)
  => /\ GroupKeys = ListedKeys
     /\ \A j \in DOMAIN run_groups :
          LET g == run_groups[j]
          IN /\ Range(g.echo_files) = { InfoOf(f) : f \in FilesOfKey(g.key) }
             /\ Len(g.echo_files) = Cardinality(FilesOfKey(g.key))
             /\ Ascending(g.echo_files)
             /\ \A f \in FilesOfKey(g.key) :
                  << g.transforms >> = _find_transform_files(f, fs, anat_listing).val

\* ----------------------------------------------------------------- C12
\* The temporary trimmed files among files, of whatever run and echo.
TempFilesOf(files) == { p \in files : p = TempPath(p.stem, p.n) }

\* _run_tedana is not between its first save and its cleanup: it has not
\* been entered for the current run, or it has returned or raised.
OutsideTrimming == pc \in { "run", "verify", "t1w", "mni", "store", "done", "failed" }

\* C12 (as claimed): no temporary trimmed file outlives its run: once the
\* combination call has returned and the output is about to be verified,
\* whenever _run_tedana has returned or raised, and whenever the next run
\* begins, no temporary trimmed file exists.
C12_NoTempOutlivesRun == OutsideTrimming => TempFilesOf(fs) = {}

\* ----------------------------------------------------------------- C13
\* The paths that a recorded call wrote to.
WrittenBy(c) ==
  IF ~c.wrote THEN {}
  ELSE IF c.op = "t2smap_workflow" THEN { OptcomPath(c.key) }
  ELSE { c.output }

\* This process() call saved the temporary file p, for the run of key.
SavedHere(p, key) ==
  \E c \in Range(calls) : c.op = "load_trim_save" /\ c.ok /\ c.output = p /\ c.key = key

\* The echo files, sidecars, transforms and references the groups name.
NamedInputs ==
  UNION { { run_groups[j].echo_files[n].file_path : n \in DOMAIN run_groups[j].echo_files }
          \cup { run_groups[j].echo_files[n].json_path : n \in DOMAIN run_groups[j].echo_files }
          \cup { run_groups[j].transforms.bold_to_t1w, run_groups[j].transforms.t1w_to_mni,
                 run_groups[j].transforms.t1w_reference, run_groups[j].transforms.mni_reference }
          : j \in DOMAIN run_groups }

\* C13: process() deletes and overwrites no input file: every file that
\* existed when process() began and exists no more is a temporary trimmed
\* file that this call saved again, for a run it has entered, before
\* unlinking it; every file the groups name still exists, and no call
\* wrote to one of them.
C13_InputsUntouched ==
  /\ pc # "start" =>
       \A p \in fs0 \ fs :
         /\ p \in TempFilesOf(fs0)
         /\ \E j \in 1..r : j <= Len(run_groups) /\ SavedHere(p, run_groups[j].key)
  /\ LET named == NamedInputs
     IN /\ named \subseteq fs
        /\ \A c \in Range(calls) : WrittenBy(c) \cap named = {}

\* A leftover temporary file of an earlier process() call was saved again
\* and unlinked, and the echo files are all there.
C13_Witness ==
  /\ pc = "done"
  /\ trim_by > 0
  /\ fs0 \ fs # {}
  /\ \E c \in Range(calls) : c.op = "load_trim_save" /\ c.ok /\ c.output \notin fs

\* ----------------------------------------------------------------- C14
Combinations == { c \in Range(calls) : c.op = "t2smap_workflow" }

\* The listed file of run key whose path is p and whose EchoTime is te.
IsOriginal(p, te, key) ==
  \E n \in DOMAIN listing :
    /\ listing[n].te = << te >>
    /\ EchoPath(listing[n].name) = p
    /\ KeyOf(listing[n]) = key

\* C14: the combination call gets one source per echo and one echo time
\* per source, in ascending echo_time order, source n being the file of the
\* echo whose time is echo time n.  With trim_by = 0 the sources are the
\* original echo files and no temporary file is ever created; with
\* trim_by > 0 they are the temporary trimmed files of the run, one per
\* echo, each saved from the original of its echo, and never an original.
C14_CombinationInputs ==
  /\ \A c \in Combinations :
       /\ Len(c.sources) = Len(c.echo_times)
       /\ Len(c.sources) = Len(run_groups[GroupIdx(c.key)].echo_files)
       /\ \A a, b \in DOMAIN c.echo_times : a < b => c.echo_times[a] <= c.echo_times[b]
       /\ \A a, b \in DOMAIN c.sources : a # b => c.sources[a] # c.sources[b]
       /\ \A n \in DOMAIN c.sources :
            IF trim_by = 0
            THEN IsOriginal(c.sources[n], c.echo_times[n], c.key)
            ELSE /\ c.sources[n] = TempPath(c.key, n)
                 /\ c.sources[n] \notin NamedInputs
                 /\ \E d \in Range(calls) :
                      /\ d.op = "load_trim_save" /\ d.ok /\ d.key = c.key
                      /\ d.output = c.sources[n]
                      /\ d.echo_times = << c.echo_times[n] >>
                      /\ IsOriginal(d.sources[1], c.echo_times[n], c.key)
  /\ trim_by = 0 =>
       /\ TempFilesOf(fs) = {}
       /\ \A c \in Range(calls) : c.op # "load_trim_save"

\* The combination call was made from trimmed files for a run whose echoes
\* were enumerated in descending echo_time order.
C14_Witness ==
  /\ trim_by > 0
  /\ Len(listing) >= 3
  /\ listing[1].te = <<3>>
  /\ \E c \in Combinations : c.key = KeyOf(listing[1]) /\ c.echo_times = << 1, 2, 3 >>

\* ----------------------------------------------------------------- C15
\* The position in the enumeration of the echo file of path p.
DiscoveryIndex(p) == CHOOSE n \in DOMAIN listing : EchoPath(listing[n].name) = p

\* C15: after grouping, two echoes of one group with equal echo_time are
\* in the order in which they were discovered.
C15_SortIsStable ==
  Grouped =>
    \A j \in DOMAIN run_groups :
      LET echoes == run_groups[j].echo_files
      IN \A a, b \in DOMAIN echoes :
           (a < b /\ echoes[a].echo_time = echoes[b].echo_time)
           => DiscoveryIndex(echoes[a].file_path) < DiscoveryIndex(echoes[b].file_path)

\* A group holds two echoes of equal echo_time, with an echo of smaller and
\* one of larger echo_time discovered between them.
C15_Witness ==
  /\ Grouped
  /\ \E j \in DOMAIN run_groups :
       LET echoes == run_groups[j].echo_files
       IN \E a, b \in DOMAIN echoes :
            /\ a < b
            /\ echoes[a].echo_time = echoes[b].echo_time
            /\ DiscoveryIndex(echoes[b].file_path) - DiscoveryIndex(echoes[a].file_path) > 2
            /\ Len(echoes) = 4

\* ----------------------------------------------------------------- C16
ProjectionStages == { "anat", "std" }

ProjectedPath(stage, key) == IF stage = "anat" THEN T1wOutput(key) ELSE MniOutput(key)

ReturnedPath(stage) == IF stage = "anat" THEN t1w_output ELSE mni_output

KeyOrder == << "sub", "ses", "task", "run" >>

KeyRank(prefix) == CHOOSE n \in DOMAIN KeyOrder : KeyOrder[n] = prefix

\* key is the run key of the file named name: it holds, for each of sub,
\* ses, task and run that some component of the name starts with, the first
\* such component, in the order sub, ses, task, run, and nothing else.
IsRunKeyOf(key, name) ==
  /\ \A a \in DOMAIN key : key[a].p \in Range(KeyOrder)
  /\ \A a, b \in DOMAIN key : a < b => KeyRank(key[a].p) < KeyRank(key[b].p)
  /\ \A q \in Range(KeyOrder) :
       (\E a \in DOMAIN key : key[a].p = q) <=> (\E m \in DOMAIN name : name[m].p = q)
  /\ \A a \in DOMAIN key :
       \E m \in DOMAIN name :
         /\ name[m] = key[a]
         /\ \A n \in 1..(m - 1) : name[n].p # key[a].p

\* C17: every file that grouping has taken is in exactly one group, the one
\* whose key is the run key of its name; so two files with the same run key
\* are in the same group.  The name
\* sub-01_task-rest_run-1_echo-1_desc-preproc_bold.nii.gz has the key
\* sub-01_task-rest_run-1.
C17_RunKey ==
  /\ \A n \in DOMAIN echo_files :
       n < i =>
         \E j \in DOMAIN run_groups :
           /\ IsRunKeyOf(run_groups[j].key, echo_files[n].name)
           /\ \E m \in DOMAIN run_groups[j].echo_files :
                run_groups[j].echo_files[m].file_path = EchoPath(echo_files[n].name)
           /\ \A h \in DOMAIN run_groups :
                (\E m \in DOMAIN run_groups[h].echo_files :
                   run_groups[h].echo_files[m].file_path = EchoPath(echo_files[n].name))
                => h = j
  /\ \A j, h \in DOMAIN run_groups : j # h => run_groups[j].key # run_groups[h].key
  /\ KeyOf([name |-> EchoName("1", "1")]) = << C("sub", "01"), C("task", "rest"), C("run", "1") >>

\* Grouping has returned three groups: one without run index, one whose
\* files differ in the acq- component, and one named with the task first
\* and two run- components.
C17_Witness ==
  /\ Grouped
  /\ Len(run_groups) = 3
  /\ \E j \in DOMAIN run_groups :
       /\ run_groups[j].key = << C("sub", "01"), C("ses", "1"), C("task", "rest") >>
       /\ Len(run_groups[j].echo_files) = 2
  /\ \E j \in DOMAIN run_groups :
       /\ run_groups[j].key = << C("sub", "01"), C("task", "rest"), C("run", "1") >>
       /\ Len(run_groups[j].echo_files) = 3
  /\ \E j \in DOMAIN run_groups :
       run_groups[j].key = << C("sub", "01"), C("task", "nback"), C("run", "2") >>

\* ----------------------------------------------------------------- C18
\* The output locations of the run of key: the directory of the combination
\* call, its output, its temporary files and the two projected outputs.
RunPaths(key) ==
  { OutputDir(key), OptcomPath(key), T1wOutput(key), MniOutput(key) }
  \cup { TempPath(key, n) : n \in 1..MaxFiles }

\* p is an output location of the run of key.
InRunPaths(p, key) ==
  \/ p = OutputDir(key)
  \/ p = OptcomPath(key)
  \/ p = T1wOutput(key)
  \/ p = MniOutput(key)
  \/ p.n \in 1..MaxFiles /\ p = TempPath(key, p.n)

\* The paths a recorded call wrote to, skipped on, or was given to write to.
Touched(c) == { c.output } \cup WrittenBy(c)

\* C18: the output locations of two runs with different keys have no path
\* in common; every call writes to, or skips on, locations of its own run
\* only; the path _run_tedana returned, the temporary files it unlinks and
\* the paths of a result are locations of the run they are for.
C18_DistinctOutputLocations ==
  /\ \A j, h \in DOMAIN run_groups :
       j < h => \A p \in RunPaths(run_groups[j].key) : ~InRunPaths(p, run_groups[h].key)
  /\ \A c \in Range(calls) :
       \A p \in Touched(c) :
         /\ InRunPaths(p, c.key)
         /\ \A h \in DOMAIN run_groups :
              run_groups[h].key # c.key => ~InRunPaths(p, run_groups[h].key)
  /\ pc \in { "t1w", "mni", "store" } => InRunPaths(optcom_file, run_groups[r].key)
  /\ pc \in { "trim", "combine", "unlink", "except" }
       => \A n \in DOMAIN trimmed_files : InRunPaths(trimmed_files[n], run_groups[r].key)
  /\ \A j \in DOMAIN results :
       /\ InRunPaths(results[j].optcom, results[j].key)
       /\ InRunPaths(results[j].t1w, results[j].key)
       /\ InRunPaths(results[j].mni, results[j].key)

\* Two runs have been trimmed, combined and projected in one process() call.
C18_Witness ==
  /\ pc = "done"
  /\ trim_by > 0
  /\ Len(results) = 2
  /\ results[1].key # results[2].key
  /\ \A j \in DOMAIN results :
       /\ \E c \in Range(calls) : c.op = "load_trim_save" /\ c.key = results[j].key
       /\ \E c \in Range(calls) : c.op = "antsApplyTransforms" /\ c.key = results[j].key

\* ----------------------------------------------------------------- C19
ResultKeys == { results[j].key : j \in DOMAIN results }

\* C19: when process() has returned, the results hold one record for each
\* key of the discovered files and for no other key, and the record of a key
\* holds the combined output path, the T1w-space output path and the
\* MNI-space output path of that run, in that order.
C19_ResultPerRun ==
  pc = "done" =>
    /\ ResultKeys = ListedKeys
    /\ Len(results) = Cardinality(ListedKeys)
    /\ \A j \in DOMAIN results :
         /\ results[j].optcom = OptcomPath(results[j].key)
         /\ results[j].t1w = T1wOutput(results[j].key)
         /\ results[j].mni = MniOutput(results[j].key)

\* process() has returned the records of two runs, one of them with outputs
\* that existed before.
C19_Witness ==
  /\ pc = "done"
  /\ Len(results) = 2
  /\ results[1].key # results[2].key
  /\ \E c \in Range(calls) : c.op = "skip_existing"
  /\ \E c \in Range(calls) : c.op = "antsApplyTransforms"

\* ----------------------------------------------------------------- C20
\* The inputs of process() are not complete: a directory is absent, an echo
\* file has no sidecar or its sidecar no EchoTime, a transform or reference
\* file of a run is absent, or a run has not three echo files.
InputDefect ==
  \/ tree # "ok"
  \/ listing # <<>> /\ anat_listing = <<>>
  \/ \E n \in DOMAIN listing :
       LET base == BaseName(listing[n].name)
       IN \/ listing[n].te = <<>>
          \/ JsonPath(listing[n].name) \notin fs
          \/ BoldToT1wPath(base) \notin fs
          \/ T1wRefPath(base) \notin fs
          \/ MniRefPath(base) \notin fs
  \/ LET keys == [n \in DOMAIN listing |-> KeyOf(listing[n])]
     IN \E n \in DOMAIN keys : Cardinality({ m \in DOMAIN keys : keys[m] = keys[n] }) # 3

\* C20: discovery, grouping and the echo-count validation of all runs come
\* before the first trimming, combination or projection call of any run:
\* with incomplete inputs process() never gets past validation, makes no
\* external call, begins no stage, creates no file and returns nothing;
\* and whenever a call has been made or a stage begun, every file has been
\* grouped and every group has three echoes.
C20_ValidationBeforeInvocation ==
  /\ InputDefect =>
       /\ pc \in { "start", "group", "validate", "failed" }
       /\ calls = <<>>
       /\ stages = <<>>
       /\ trimmed_files = <<>>
       /\ results = <<>>
       /\ fs = fs0
       /\ TempFilesOf(fs) = {}
  /\ (calls # <<>> \/ stages # <<>>) =>
       /\ Validated
       /\ Len(echo_files) = Len(listing)
       /\ \A j \in DOMAIN run_groups : Len(run_groups[j].echo_files) = 3

\* process() has failed on the second run, after the first run was grouped
\* complete, without a call.
C20_Witness ==
  /\ pc = "failed"
  /\ InputDefect
  /\ run_groups # <<>>
  /\ Len(run_groups[1].echo_files) = 3
  /\ error.key # run_groups[1].key
  /\ error.type \in { "ValueError", "FileNotFoundError" }
  /\ calls = <<>>

====
